---- MODULE Spec2Model ----
(***************************************************************************)
(* A model of the files_manager service: registration (UsersController),   *)
(* login / logout / identity (AuthController, utils/auth.js, which is the   *)
(* second half of src/utils/redis.js), the Redis session cache              *)
(* (utils/redis.js), the users collection (utils/db.js), the file           *)
(* endpoints (FilesController, src/unnamed/part_000), the thumbnail worker  *)
(* that consumes fileQueue, and the connection state that the two clients   *)
(* report through AppController.getStatus.                                  *)
(*                                                                         *)
(* Every request handler is an async function: it runs from one await to   *)
(* the next without interruption, and other requests run in between.  One  *)
(* action of the model is one such uninterrupted stretch of one request.    *)
(* A cache or database call takes effect in the stretch that ends with its  *)
(* result: all requests share one Redis connection and one Mongo client,    *)
(* and a connection serves its commands in the order they were sent.        *)
(***************************************************************************)
EXTENDS Integers, Sequences, FiniteSets, TLC

VARIABLES
    users,      \* the users collection: sequence of documents, insertion order
    files,      \* the files collection: sequence of documents, insertion order
    disk,       \* the paths that hold bytes on the storage medium
    cache,      \* Redis: key auth_<token> -> [value, expireAt] (expireAt 0: no key)
    now,        \* Redis' clock, in seconds
    nextToken,  \* the next value uuidv4() hands out
    userQueue,  \* jobs added to userQueue
    fileQueue,  \* jobs added to fileQueue
    req,        \* the requests in flight or answered, one per connection slot
    worker,     \* the thumbnail worker: the jobs it has done and has failed
    conn,       \* the Redis and Mongo clients: the link and the isConnected flag
    hist        \* history: what was issued, revoked and registered

vars == <<users, files, disk, cache, now, nextToken, userQueue, fileQueue, req,
          worker, conn, hist>>

-----------------------------------------------------------------------------
(* Bounds of the model *)

MaxUsers == 2        \* user documents the collection may hold
MaxTokens == 2       \* tokens uuidv4() may hand out
MaxTicks == 2        \* clock steps
MaxFiles == 2        \* file documents the collection may hold

(* Program constants *)

SessionTTL == 24 * 60 * 60

Procs == {1, 2}                       \* concurrent requests
Tokens == 1 .. MaxTokens
TickSeconds == SessionTTL \div 2      \* the clock moves in half-TTL steps

-----------------------------------------------------------------------------
(* Values.  A string is the sequence of its character codes. *)

Undefined == <<-1>>                   \* JavaScript undefined, where a string may be
NoToken == 0                          \* no X-Token header
NoUserId == 0                         \* a cache miss (null)
Null == [null |-> TRUE]               \* JavaScript null, where a document may be

Falsy(s) == s = Undefined \/ s = <<>>

Colon == <<58>>
StrA == <<97>>                        \* "a"
StrB == <<98>>                        \* "b"
StrP == <<112>>                       \* "p"
StrQ == <<113>>                       \* "q"
StrPQ == StrP \o Colon \o StrQ        \* "p:q"

-----------------------------------------------------------------------------
(* String.prototype.split(sep) for a one-character separator: the pieces    *)
(* between the separators, in order; a string without one is one piece.     *)

RECURSIVE SplitFrom(_, _, _)
SplitFrom(s, sep, piece) ==
    IF s = <<>> THEN <<piece>>
    ELSE IF Head(s) = sep THEN <<piece>> \o SplitFrom(Tail(s), sep, <<>>)
    ELSE SplitFrom(Tail(s), sep, Append(piece, Head(s)))

Split(s, sep) == SplitFrom(s, sep, <<>>)

At(parts, i) == IF i <= Len(parts) THEN parts[i] ELSE Undefined

(***************************************************************************)
(* Base64.  A header character is the index of the character in the base64  *)
(* alphabet A-Z a-z 0-9 + / (0..63); 64 is the padding '=', 65 the space.    *)
(***************************************************************************)

RECURSIVE Base64Encode(_)
Base64Encode(bytes) ==
    IF Len(bytes) = 0 THEN <<>>
    ELSE IF Len(bytes) = 1 THEN
        << bytes[1] \div 4, (bytes[1] % 4) * 16, 64, 64 >>
    ELSE IF Len(bytes) = 2 THEN
        << bytes[1] \div 4, (bytes[1] % 4) * 16 + bytes[2] \div 16,
           (bytes[2] % 16) * 4, 64 >>
    ELSE
        << bytes[1] \div 4, (bytes[1] % 4) * 16 + bytes[2] \div 16,
           (bytes[2] % 16) * 4 + bytes[3] \div 64, bytes[3] % 64 >>
        \o Base64Encode(SubSeq(bytes, 4, Len(bytes)))

\* Buffer.from(token, 'base64'): decoding stops at the first padding character
RECURSIVE UpToPad(_)
UpToPad(s) ==
    IF s = <<>> \/ Head(s) >= 64 THEN <<>> ELSE <<Head(s)>> \o UpToPad(Tail(s))

RECURSIVE DecodeSextets(_)
DecodeSextets(d) ==
    IF Len(d) < 2 THEN <<>>
    ELSE IF Len(d) = 2 THEN << d[1] * 4 + d[2] \div 16 >>
    ELSE IF Len(d) = 3 THEN
        << d[1] * 4 + d[2] \div 16, (d[2] % 16) * 16 + d[3] \div 4 >>
    ELSE
        << d[1] * 4 + d[2] \div 16, (d[2] % 16) * 16 + d[3] \div 4,
           (d[3] % 4) * 64 + d[4] >>
        \o DecodeSextets(SubSeq(d, 5, Len(d)))

Base64Decode(token) == DecodeSextets(UpToPad(token))

Space == <<65>>
Basic == <<1, 26, 44, 34, 28>>        \* the word Basic

\* what a client sends for (email, password): Basic base64(email:password)
BasicHeader(email, password) ==
    Basic \o Space \o Base64Encode(email \o Colon \o password)

\* sha1: a one-way hash without collisions on the strings of the model
sha1(s) == <<"sha1", s>>

-----------------------------------------------------------------------------
(***************************************************************************)
(* Number(value) for a query parameter: undefined or a string.  The strings *)
(* of the model are made of spaces, signs, dots, digits and letters that    *)
(* form no numeric literal (no exponent, hex or Infinity spelling).  A      *)
(* number is NaN or (neg ? -1 : 1) * (int + 0.frac), frac without trailing  *)
(* zeros.                                                                   *)
(***************************************************************************)

NaN == [nan |-> TRUE, neg |-> FALSE, int |-> 0, frac |-> <<>>]
Num(neg, int, frac) == [nan |-> FALSE, neg |-> neg, int |-> int, frac |-> frac]

Blank == 32
Plus == 43
Minus == 45
Dot == 46
IsDigit(c) == c \in 48 .. 57

RECURSIVE TrimStart(_)
TrimStart(s) == IF s # <<>> /\ Head(s) = Blank THEN TrimStart(Tail(s)) ELSE s

RECURSIVE TrimEnd(_)
TrimEnd(s) ==
    IF s # <<>> /\ s[Len(s)] = Blank THEN TrimEnd(SubSeq(s, 1, Len(s) - 1)) ELSE s

RECURSIVE DigitsValue(_)
DigitsValue(s) ==
    IF s = <<>> THEN 0
    ELSE DigitsValue(SubSeq(s, 1, Len(s) - 1)) * 10 + (s[Len(s)] - 48)

RECURSIVE StripZeros(_)
StripZeros(s) ==
    IF s # <<>> /\ s[Len(s)] = 48 THEN StripZeros(SubSeq(s, 1, Len(s) - 1)) ELSE s

ToNumber(value) ==
    IF value = Undefined THEN NaN
    ELSE LET t == TrimEnd(TrimStart(value))
             signed == t # <<>> /\ t[1] \in {Plus, Minus}
             parts == Split(IF signed THEN Tail(t) ELSE t, Dot)
             int == parts[1]
             frac == IF Len(parts) = 2 THEN parts[2] ELSE <<>>
         IN IF t = <<>> THEN Num(FALSE, 0, <<>>)
            ELSE IF \/ Len(parts) > 2
                    \/ int = <<>> /\ frac = <<>>
                    \/ \E i \in 1 .. Len(int) : ~IsDigit(int[i])
                    \/ \E i \in 1 .. Len(frac) : ~IsDigit(frac[i])
               THEN NaN
            ELSE Num(t[1] = Minus, DigitsValue(int), StripZeros(frac))

\* Number.isNaN(value): true only for the number NaN, never for a string or
\* for undefined
Number_isNaN(value) == FALSE

\* [...].includes(n) for a list of integers
Includes(list, n) ==
    ~n.nan /\ ~n.neg /\ n.frac = <<>> /\ \E i \in 1 .. Len(list) : list[i] = n.int

-----------------------------------------------------------------------------
(* utils/db.js: the users collection *)

\* findOne: the first matching document in insertion order, or null
First(docs, hits) ==
    IF hits = {} THEN Null
    ELSE docs[CHOOSE i \in hits : \A j \in hits : i <= j]

findUserByEmail(email) ==
    First(users, {i \in 1 .. Len(users) : users[i].email = email})

findUserById(userId) ==
    First(users, {i \in 1 .. Len(users) : users[i]._id = userId})

\* insertOne({email, password: sha1(password)}): the collection after the insert
addUser(email, password) ==
    Append(users, [_id |-> Len(users) + 1, email |-> email,
                   password |-> sha1(password)])

(* utils/redis.js: the cache.  A key lives while the clock is before its expiry. *)

NoEntry == [value |-> NoUserId, expireAt |-> 0]

redisGet(key) ==
    IF key \in DOMAIN cache /\ cache[key].expireAt > now
       THEN cache[key].value
       ELSE NoUserId

redisSetEx(key, value, expiry) ==
    [cache EXCEPT ![key] = [value |-> value, expireAt |-> now + expiry]]

redisDel(key) == [cache EXCEPT ![key] = NoEntry]

-----------------------------------------------------------------------------
(* utils/auth.js *)

\* {email, password} of the Authorization header, or null
getBasicAuthToken(authHeader) ==
    IF Falsy(authHeader) THEN Null
    ELSE LET token == At(Split(authHeader, Space[1]), 2) IN
         IF Falsy(token) THEN Null
         ELSE LET decoded == Split(Base64Decode(token), Colon[1]) IN
              [email |-> At(decoded, 1), password |-> At(decoded, 2)]

getSessionToken(xToken) == xToken

\* a mutant: the password comparison is left out
authenticateUser_anyPassword(email, password) == findUserByEmail(email)

authenticateUser(email, password) ==
    LET user == findUserByEmail(email) IN
    IF user = Null THEN Null
    ELSE IF user.password # sha1(password) THEN Null
    ELSE user

\* getUserFromSession on the present cache and collection
getUserFromSession(token) ==
    LET userId == redisGet(token) IN
    IF userId = NoUserId THEN Null
    ELSE LET user == findUserById(userId) IN
         IF user = Null THEN Null
         ELSE [email |-> user.email, id |-> user._id]

-----------------------------------------------------------------------------
(* Requests and responses *)

NoResp == [status |-> 0, body |-> Null]
Resp(status, body) == [status |-> status, body |-> body]
Error(status, message) == Resp(status, [error |-> message])
Unauthorized == Error(401, "Unauthorized")

IdleReq == [op |-> "idle", pc |-> "idle", in |-> Null, loc |-> Null,
            resp |-> NoResp]

\* a slot is free before its first request and after an answer or a throw
Free(r) == req[r].pc \in {"idle", "done", "threw"}

\* the request in slot r after the first stretch of handler op
Begin(r, op, in, pc, loc, resp) ==
    [req EXCEPT ![r] = [op |-> op, pc |-> pc, in |-> in, loc |-> loc,
                        resp |-> resp]]
Answer(r, resp) ==
    [req EXCEPT ![r].pc = "done", ![r].loc = Null, ![r].resp = resp]
Goto(r, pc, loc) == [req EXCEPT ![r].pc = pc, ![r].loc = loc]

InFlight(op) == Cardinality({r \in Procs : req[r].op = op /\ ~Free(r)})

Emails == {<<>>, StrA, StrB}
Passwords == {<<>>, StrP, StrPQ}
LoginPasswords == Passwords \cup {StrQ}

\* Authorization headers: none, no encoded part, no colon in the decoded
\* text, an empty email, an empty password, and well-formed pairs
Headers ==
    {Undefined, Basic, Basic \o Space \o Base64Encode(StrA),
     BasicHeader(<<>>, StrP), BasicHeader(StrA, <<>>),
     BasicHeader(StrA, StrP), BasicHeader(StrA, StrQ), BasicHeader(StrB, StrP),
     BasicHeader(StrB, StrPQ)}

-----------------------------------------------------------------------------
(* UsersController.postNew *)

postNew(r, email, password) ==
    /\ Free(r)
    /\ Len(users) + InFlight("postNew") < MaxUsers
    /\ LET in == [email |-> email, password |-> password] IN
       req' = IF Falsy(email)
                 THEN Begin(r, "postNew", in, "done", Null,
                            Error(400, "Missing email"))
              ELSE IF Falsy(password)
                 THEN Begin(r, "postNew", in, "done", Null,
                            Error(400, "Missing password"))
              ELSE Begin(r, "postNew", in, "find", Null, NoResp)
    /\ UNCHANGED <<users, files, disk, cache, now, nextToken, userQueue, fileQueue, hist, worker, conn>>

\* a mutant: the existing user is not looked at
postNew_find_noCheck(r) ==
    /\ req[r].op = "postNew" /\ req[r].pc = "find"
    /\ req' = Goto(r, "add", Null)
    /\ UNCHANGED <<users, files, disk, cache, now, nextToken, userQueue, fileQueue, hist, worker, conn>>

\* the answer of findUserByEmail arrives
postNew_find(r) ==
    /\ req[r].op = "postNew" /\ req[r].pc = "find"
    /\ req' = IF findUserByEmail(req[r].in.email) # Null
                 THEN Answer(r, Error(400, "Already exist"))
                 ELSE Goto(r, "add", Null)
    /\ UNCHANGED <<users, files, disk, cache, now, nextToken, userQueue, fileQueue, hist, worker, conn>>

\* the answer of addUser arrives: the insert is done, the job is added
postNew_add(r) ==
    /\ req[r].op = "postNew" /\ req[r].pc = "add"
    /\ users' = addUser(req[r].in.email, req[r].in.password)
    /\ LET newUser == [email |-> users'[Len(users')].email,
                       id |-> users'[Len(users')]._id] IN
       /\ userQueue' = Append(userQueue, [userId |-> newUser.id])
       /\ req' = Answer(r, Resp(201, newUser))
    /\ hist' = [hist EXCEPT !.registered =
                   Append(@, [email |-> req[r].in.email,
                              password |-> req[r].in.password])]
    /\ UNCHANGED <<files, disk, cache, now, nextToken, fileQueue, worker, conn>>

-----------------------------------------------------------------------------
(* AuthController.getConnect *)

getConnect(r, header) ==
    /\ Free(r)
    /\ nextToken + InFlight("getConnect") <= MaxTokens
    /\ LET in == [authorization |-> header]
           cred == getBasicAuthToken(header) IN
       req' = IF cred = Null
                 \* const { email, password } = null: a TypeError, no response
                 THEN Begin(r, "getConnect", in, "threw", Null, NoResp)
              ELSE IF Falsy(cred.email) \/ Falsy(cred.password)
                 THEN Begin(r, "getConnect", in, "done", Null, Unauthorized)
              ELSE Begin(r, "getConnect", in, "auth", cred, NoResp)
    /\ UNCHANGED <<users, files, disk, cache, now, nextToken, userQueue, fileQueue, hist, worker, conn>>

\* generateSessionToken(userId): set() sends SETEX and drops its promise, so
\* the token is returned whether the write is stored or fails
generateSessionToken(r, userId, stored) ==
    /\ nextToken' = nextToken + 1
    /\ cache' = IF stored THEN redisSetEx(nextToken, userId, SessionTTL)
                ELSE cache
    /\ hist' = [hist EXCEPT !.issuedTo[nextToken] = userId,
                            !.issuedAt[nextToken] = now]
    /\ req' = Answer(r, Resp(200, [token |-> nextToken]))

\* a mutant: an unknown email and a wrong password are answered differently
getConnect_auth_leaky(r) ==
    /\ req[r].op = "getConnect" /\ req[r].pc = "auth"
    /\ LET user == authenticateUser(req[r].loc.email, req[r].loc.password) IN
       IF user = Null
          THEN /\ req' = Answer(r, IF findUserByEmail(req[r].loc.email) = Null
                                      THEN Error(404, "Not found")
                                      ELSE Unauthorized)
               /\ UNCHANGED <<cache, nextToken, hist>>
          ELSE \E stored \in BOOLEAN : generateSessionToken(r, user._id, stored)
    /\ UNCHANGED <<users, files, disk, now, userQueue, fileQueue, worker, conn>>

\* the answer of authenticateUser arrives
getConnect_auth(r) ==
    /\ req[r].op = "getConnect" /\ req[r].pc = "auth"
    /\ LET user == authenticateUser(req[r].loc.email, req[r].loc.password) IN
       IF user = Null
          THEN /\ req' = Answer(r, Unauthorized)
               /\ UNCHANGED <<cache, nextToken, hist>>
          ELSE \E stored \in BOOLEAN : generateSessionToken(r, user._id, stored)
    /\ UNCHANGED <<users, files, disk, now, userQueue, fileQueue, worker, conn>>

-----------------------------------------------------------------------------
(* getCurrentUser, the gate of getMe and of the file endpoints *)

GatedOps == {"getMe", "postUpload", "getShow", "getIndex", "putPublish",
             "putUnpublish", "getFile"}

\* the first stretch of a gated handler: no X-Token header, no user
Gate(r, op, xToken, in) ==
    /\ Free(r)
    /\ req' = IF getSessionToken(xToken) = NoToken
                 THEN Begin(r, op, in, "done", Null, Unauthorized)
                 ELSE Begin(r, op, in, "session", Null, NoResp)
    /\ UNCHANGED <<users, files, disk, cache, now, nextToken, userQueue, fileQueue, hist, worker, conn>>

\* getCurrentUser returned null: getFile goes on without a viewer, every
\* other handler answers 401
NoCurrentUser(r) ==
    IF req[r].op = "getFile" THEN Goto(r, "store", Null)
    ELSE Answer(r, Unauthorized)

\* getUserFromSession: the answer of redisClient.get arrives
getUserFromSession_get(r) ==
    /\ req[r].op \in GatedOps /\ req[r].pc = "session"
    /\ LET userId == redisGet(req[r].in.token) IN
       req' = IF userId = NoUserId THEN NoCurrentUser(r)
              ELSE Goto(r, "user", [userId |-> userId])
    /\ UNCHANGED <<users, files, disk, cache, now, nextToken, userQueue, fileQueue, hist, worker, conn>>

\* getUserFromSession: the answer of findUserById arrives
getUserFromSession_find(r) ==
    /\ req[r].op \in GatedOps /\ req[r].pc = "user"
    /\ LET user == findUserById(req[r].loc.userId)
           currentUser == [email |-> user.email, id |-> user._id] IN
       req' = IF user = Null THEN NoCurrentUser(r)
              ELSE IF req[r].op = "getMe" THEN Answer(r, Resp(200, currentUser))
              ELSE Goto(r, "store", currentUser)
    /\ UNCHANGED <<users, files, disk, cache, now, nextToken, userQueue, fileQueue, hist, worker, conn>>

(* AuthController.getMe *)

getMe(r, xToken) == Gate(r, "getMe", xToken, [token |-> xToken])

-----------------------------------------------------------------------------
(* AuthController.getDisconnect *)

getDisconnect(r, xToken) ==
    /\ Free(r)
    /\ LET in == [token |-> xToken] IN
       req' = IF getSessionToken(xToken) = NoToken
                 THEN Begin(r, "getDisconnect", in, "done", Null, Unauthorized)
                 ELSE Begin(r, "getDisconnect", in, "get", Null, NoResp)
    /\ UNCHANGED <<users, files, disk, cache, now, nextToken, userQueue, fileQueue, hist, worker, conn>>

\* deleteSessionToken: the answer of redisClient.get arrives
deleteSessionToken_get(r) ==
    /\ req[r].op = "getDisconnect" /\ req[r].pc = "get"
    /\ req' = IF redisGet(req[r].in.token) = NoUserId
                 THEN Answer(r, Unauthorized)
                 ELSE Goto(r, "del", Null)
    /\ UNCHANGED <<users, files, disk, cache, now, nextToken, userQueue, fileQueue, hist, worker, conn>>

\* a mutant: true is returned without the key being deleted
deleteSessionToken_del_keepsKey(r) ==
    /\ req[r].op = "getDisconnect" /\ req[r].pc = "del"
    /\ hist' = [hist EXCEPT !.revoked = @ \cup {req[r].in.token}]
    /\ req' = Answer(r, Resp(204, Null))
    /\ UNCHANGED <<users, files, disk, cache, now, nextToken, userQueue, fileQueue, worker, conn>>

\* a mutant: logging out deletes every key of the token's user
deleteSessionToken_del_allOfUser(r) ==
    /\ req[r].op = "getDisconnect" /\ req[r].pc = "del"
    /\ cache' = [t \in Tokens |->
                    IF cache[t].value = cache[req[r].in.token].value
                       THEN NoEntry ELSE cache[t]]
    /\ hist' = [hist EXCEPT !.revoked = @ \cup {req[r].in.token}]
    /\ req' = Answer(r, Resp(204, Null))
    /\ UNCHANGED <<users, files, disk, now, nextToken, userQueue, fileQueue, worker, conn>>

\* deleteSessionToken: the answer of redisClient.del arrives
deleteSessionToken_del(r) ==
    /\ req[r].op = "getDisconnect" /\ req[r].pc = "del"
    /\ cache' = redisDel(req[r].in.token)
    /\ hist' = [hist EXCEPT !.revoked = @ \cup {req[r].in.token}]
    /\ req' = Answer(r, Resp(204, Null))
    /\ UNCHANGED <<users, files, disk, now, nextToken, userQueue, fileQueue, worker, conn>>

-----------------------------------------------------------------------------
(* utils/file.js: File and FilesCollection, the File Store.  A file id in a  *)
(* request is a string; ObjectId(id) of the one-digit string is the number. *)

Digit(n) == <<48 + n>>
ObjectId(s) == IF Len(s) = 1 /\ s[1] \in 49 .. 57 THEN s[1] - 48 ELSE 0

FOLDER == "folder"
FileTypes == {FOLDER, "file", "image"}
Root == 0

\* what a response shows of a file document: never the content or its path
FileView(f) ==
    [id |-> f.id, userId |-> f.userId, name |-> f.name, type |-> f.type,
     isPublic |-> f.isPublic, parentId |-> f.parentId]

FileById(id) ==
    First(files, {i \in 1 .. Len(files) : files[i].id = id})

\* File.save, first part: the message of the validation error, or "" if none
File_validate(name, type, parentId) ==
    IF Falsy(name) THEN "Missing name"
    ELSE IF type \notin FileTypes THEN "Missing type"
    ELSE IF parentId = Root THEN ""
    ELSE IF FileById(parentId) = Null THEN "Parent not found"
    ELSE IF FileById(parentId).type # FOLDER THEN "Parent is not a folder"
    ELSE ""

\* File.save, second part: the document to insert; the content path is a
\* fresh name, a string of one character that no other path holds
File_document(userId, name, type, parentId, isPublic) ==
    [id |-> Len(files) + 1, userId |-> userId, name |-> name, type |-> type,
     parentId |-> parentId, isPublic |-> isPublic,
     localPath |-> IF type = FOLDER THEN Undefined ELSE <<Len(files) + 1>>]

findUserFileById(userId, id) ==
    First(files, {i \in 1 .. Len(files) :
                     files[i].id = ObjectId(id) /\ files[i].userId = userId})

RECURSIVE SelectViews(_, _, _)
SelectViews(docs, userId, parentId) ==
    IF docs = <<>> THEN <<>>
    ELSE (IF Head(docs).userId = userId /\ Head(docs).parentId = parentId
             THEN <<FileView(Head(docs))>> ELSE <<>>)
         \o SelectViews(Tail(docs), userId, parentId)

PageSize == 20

\* listChildren: a page that is negative or not a number counts as 0
findAllUserFilesByParentId(userId, parentId, page) ==
    LET all == SelectViews(files, userId, parentId)
        skip == (IF page.nan \/ page.neg THEN 0 ELSE page.int) * PageSize IN
    SubSeq(all, skip + 1, IF Len(all) < skip + PageSize THEN Len(all)
                          ELSE skip + PageSize)

\* the files collection after updateFilePublication
updateFilePublication(userId, id, isPublished) ==
    [i \in 1 .. Len(files) |->
        IF files[i].id = ObjectId(id) /\ files[i].userId = userId
           THEN [files[i] EXCEPT !.isPublic = isPublished]
           ELSE files[i]]

-----------------------------------------------------------------------------
(* FilesController (src/unnamed/part_000) *)

FileOps == {"postUpload", "getShow", "getIndex", "putPublish", "putUnpublish"}

Uploading == Cardinality({r \in Procs : req[r].op = "postUpload" /\ ~Free(r)})

postUpload(r, xToken, name, type, parentId, isPublic) ==
    /\ Len(files) + Uploading < MaxFiles
    /\ Gate(r, "postUpload", xToken,
            [token |-> xToken, name |-> name, type |-> type,
             parentId |-> parentId, isPublic |-> isPublic])

\* new File(...).save() is called; its validation ends
postUpload_save(r) ==
    /\ req[r].op = "postUpload" /\ req[r].pc = "store"
    /\ LET error == File_validate(req[r].in.name, req[r].in.type,
                                  req[r].in.parentId) IN
       req' = IF error # "" THEN Answer(r, Error(400, error))
              ELSE Goto(r, "insert", req[r].loc)
    /\ UNCHANGED <<users, files, disk, cache, now, nextToken, userQueue, fileQueue, hist, worker, conn>>

\* a mutant: a job is added for every saved entity
postUpload_saved_anyType(r) ==
    /\ req[r].op = "postUpload" /\ req[r].pc = "insert"
    /\ LET file == File_document(req[r].loc.id, req[r].in.name, req[r].in.type,
                                 req[r].in.parentId, req[r].in.isPublic) IN
       /\ disk' = IF file.type = FOLDER THEN disk ELSE disk \cup {file.localPath}
       /\ files' = Append(files, file)
       /\ fileQueue' = Append(fileQueue, [userId |-> req[r].loc.id,
                                          fileId |-> file.id])
       /\ req' = Answer(r, Resp(201, FileView(file)))
    /\ UNCHANGED <<users, cache, now, nextToken, userQueue, hist, worker, conn>>

\* a mutant: the thumbnails of an image are made before the response is sent
postUpload_saved_inline(r) ==
    /\ req[r].op = "postUpload" /\ req[r].pc = "insert"
    /\ LET file == File_document(req[r].loc.id, req[r].in.name, req[r].in.type,
                                 req[r].in.parentId, req[r].in.isPublic)
           savedFile == FileView(file)
           isImage == savedFile.type = "image" IN
       /\ disk' = IF file.type = FOLDER THEN disk
                  ELSE IF isImage
                     THEN disk \cup {file.localPath} \cup {file.localPath \o <<95>> \o size :
                                 size \in {<<53, 48, 48>>, <<50, 53, 48>>, <<49, 48, 48>>}}
                  ELSE disk \cup {file.localPath}
       /\ files' = Append(files, file)
       /\ fileQueue' = IF isImage
                          THEN Append(fileQueue, [userId |-> req[r].loc.id,
                                                  fileId |-> savedFile.id])
                          ELSE fileQueue
       /\ worker' = IF isImage
                       THEN [worker EXCEPT !.done = @ \cup {Len(fileQueue) + 1}]
                       ELSE worker
       /\ req' = Answer(r, Resp(201, savedFile))
    /\ UNCHANGED <<users, cache, now, nextToken, userQueue, hist, conn>>

\* file.save() resolves: the bytes and the document are stored; the job of
\* an image is added; 201
postUpload_saved(r) ==
    /\ req[r].op = "postUpload" /\ req[r].pc = "insert"
    /\ LET file == File_document(req[r].loc.id, req[r].in.name, req[r].in.type,
                                 req[r].in.parentId, req[r].in.isPublic)
           savedFile == FileView(file) IN
       /\ disk' = IF file.type = FOLDER THEN disk ELSE disk \cup {file.localPath}
       /\ files' = Append(files, file)
       /\ fileQueue' = IF savedFile.type = "image"
                          THEN Append(fileQueue, [userId |-> req[r].loc.id,
                                                  fileId |-> savedFile.id])
                          ELSE fileQueue
       /\ req' = Answer(r, Resp(201, savedFile))
    /\ UNCHANGED <<users, cache, now, nextToken, userQueue, hist, worker, conn>>

getShow(r, xToken, id) ==
    Gate(r, "getShow", xToken, [token |-> xToken, id |-> id])

\* the answer of findUserFileById arrives
getShow_find(r) ==
    /\ req[r].op = "getShow" /\ req[r].pc = "store"
    /\ LET file == findUserFileById(req[r].loc.id, req[r].in.id) IN
       req' = IF file = Null THEN Answer(r, Error(404, "Not found"))
              ELSE Answer(r, Resp(200, FileView(file)))
    /\ UNCHANGED <<users, files, disk, cache, now, nextToken, userQueue, fileQueue, hist, worker, conn>>

getIndex(r, xToken, parentId, page) ==
    Gate(r, "getIndex", xToken,
         [token |-> xToken, parentId |-> parentId, page |-> page])

\* let { parentId, page } = request.query, as handed to the File Store
getIndex_parentId(parentId) ==
    IF parentId = Digit(0) \/ Falsy(parentId) THEN Root ELSE ObjectId(parentId)

getIndex_page(page) == IF Number_isNaN(page) THEN Num(FALSE, 0, <<>>) ELSE ToNumber(page)

\* the current user is known: findAllUserFilesByParentId is called
getIndex_list(r) ==
    /\ req[r].op = "getIndex" /\ req[r].pc = "store"
    /\ req' = Goto(r, "list", [id |-> req[r].loc.id,
                               parentId |-> getIndex_parentId(req[r].in.parentId),
                               page |-> getIndex_page(req[r].in.page)])
    /\ UNCHANGED <<users, files, disk, cache, now, nextToken, userQueue,
                   fileQueue, hist, worker, conn>>

\* the answer of findAllUserFilesByParentId arrives
getIndex_find(r) ==
    /\ req[r].op = "getIndex" /\ req[r].pc = "list"
    /\ req' = Answer(r, Resp(200,
                 [files |-> findAllUserFilesByParentId(req[r].loc.id,
                                req[r].loc.parentId, req[r].loc.page)]))
    /\ UNCHANGED <<users, files, disk, cache, now, nextToken, userQueue,
                   fileQueue, hist, worker, conn>>

updatePublication(r, xToken, id, isPublished) ==
    Gate(r, IF isPublished THEN "putPublish" ELSE "putUnpublish", xToken,
         [token |-> xToken, id |-> id])

putPublish(r, xToken, id) == updatePublication(r, xToken, id, TRUE)
putUnpublish(r, xToken, id) == updatePublication(r, xToken, id, FALSE)

\* a mutant: the publication is updated under the owner's id, whoever asks
updatePublication_update_anyOwner(r) ==
    /\ req[r].op \in {"putPublish", "putUnpublish"} /\ req[r].pc = "store"
    /\ LET file == FileById(ObjectId(req[r].in.id)) IN
       /\ files' = IF file = Null THEN files
                   ELSE updateFilePublication(file.userId, req[r].in.id,
                                              req[r].op = "putPublish")
       /\ req' = IF file = Null THEN Answer(r, Error(404, "Not found"))
                 ELSE Answer(r, Resp(200,
                         FileView([file EXCEPT !.isPublic = req[r].op = "putPublish"])))
    /\ UNCHANGED <<users, disk, cache, now, nextToken, userQueue, fileQueue,
                   hist, worker, conn>>

\* the answer of updateFilePublication arrives
updatePublication_update(r) ==
    /\ req[r].op \in {"putPublish", "putUnpublish"} /\ req[r].pc = "store"
    /\ files' = updateFilePublication(req[r].loc.id, req[r].in.id,
                                      req[r].op = "putPublish")
    /\ LET file == findUserFileById(req[r].loc.id, req[r].in.id) IN
       req' = IF file = Null THEN Answer(r, Error(404, "Not found"))
              ELSE Answer(r, Resp(200,
                      FileView([file EXCEPT !.isPublic = req[r].op = "putPublish"])))
    /\ UNCHANGED <<users, disk, cache, now, nextToken, userQueue, fileQueue, hist, worker, conn>>

(* FilesController.getFile *)

\* findPublicOrOwnFile: the file, if it is public or belongs to the viewer
findPublicOrOwnFile(userId, id) ==
    First(files, {i \in 1 .. Len(files) :
                     /\ files[i].id = ObjectId(id)
                     /\ files[i].isPublic \/ files[i].userId = userId})

Underscore == <<95>>
Str500 == <<53, 48, 48>>
Str250 == <<50, 53, 48>>
Str100 == <<49, 48, 48>>

\* the path getFile reads for the size parameter
getFile_filePath(localPath, size) ==
    IF ~Number_isNaN(size) /\ Includes(<<500, 250, 100>>, ToNumber(size))
       THEN localPath \o Underscore \o size
       ELSE localPath

\* getCurrentUser is called; without an X-Token header it returns null
getFile(r, xToken, id, size) ==
    /\ Free(r)
    /\ LET in == [token |-> xToken, id |-> id, size |-> size] IN
       req' = IF getSessionToken(xToken) = NoToken
                 THEN Begin(r, "getFile", in, "store", Null, NoResp)
                 ELSE Begin(r, "getFile", in, "session", Null, NoResp)
    /\ UNCHANGED <<users, files, disk, cache, now, nextToken, userQueue,
                   fileQueue, hist, worker, conn>>

\* a mutant: the file is looked up without regard to the viewer
getFile_find_anyViewer(r) ==
    /\ req[r].op = "getFile" /\ req[r].pc = "store"
    /\ LET file == FileById(ObjectId(req[r].in.id))
           filePath == getFile_filePath(file.localPath, req[r].in.size) IN
       req' = IF file = Null THEN Answer(r, Error(404, "Not found"))
              ELSE IF file.type = FOLDER
                 THEN Answer(r, Error(400, "A folder doesn't have content"))
              ELSE IF filePath \notin disk
                 THEN Answer(r, Error(404, "Not found"))
              ELSE Goto(r, "read", [filePath |-> filePath])
    /\ UNCHANGED <<users, files, disk, cache, now, nextToken, userQueue,
                   fileQueue, hist, worker, conn>>

\* a mutant: a folder is treated like a file
getFile_find_noFolderCheck(r) ==
    /\ req[r].op = "getFile" /\ req[r].pc = "store"
    /\ LET currentUser == req[r].loc
           file == findPublicOrOwnFile(
                       IF currentUser # Null THEN currentUser.id ELSE NoUserId,
                       req[r].in.id)
           filePath == getFile_filePath(file.localPath, req[r].in.size) IN
       req' = IF file = Null THEN Answer(r, Error(404, "Not found"))
              ELSE IF filePath \notin disk
                 THEN Answer(r, Error(404, "Not found"))
              ELSE Goto(r, "read", [filePath |-> filePath])
    /\ UNCHANGED <<users, files, disk, cache, now, nextToken, userQueue,
                   fileQueue, hist, worker, conn>>

\* the answer of findPublicOrOwnFile arrives; existsSync(filePath)
getFile_find(r) ==
    /\ req[r].op = "getFile" /\ req[r].pc = "store"
    /\ LET currentUser == req[r].loc
           file == findPublicOrOwnFile(
                       IF currentUser # Null THEN currentUser.id ELSE NoUserId,
                       req[r].in.id)
           filePath == getFile_filePath(file.localPath, req[r].in.size) IN
       req' = IF file = Null THEN Answer(r, Error(404, "Not found"))
              ELSE IF file.type = FOLDER
                 THEN Answer(r, Error(400, "A folder doesn't have content"))
              ELSE IF filePath \notin disk
                 THEN Answer(r, Error(404, "Not found"))
              ELSE Goto(r, "read", [filePath |-> filePath])
    /\ UNCHANGED <<users, files, disk, cache, now, nextToken, userQueue,
                   fileQueue, hist, worker, conn>>

\* readFile(filePath) resolves with the bytes at the path, or rejects
getFile_read(r) ==
    /\ req[r].op = "getFile" /\ req[r].pc = "read"
    /\ req' = IF req[r].loc.filePath \in disk
                 THEN Answer(r, Resp(200, [data |-> req[r].loc.filePath]))
                 ELSE [req EXCEPT ![r].pc = "threw", ![r].loc = Null]
    /\ UNCHANGED <<users, files, disk, cache, now, nextToken, userQueue,
                   fileQueue, hist, worker, conn>>

-----------------------------------------------------------------------------
(* worker.js: the thumbnail worker that consumes fileQueue.  Job j is the   *)
(* j-th job added.  A job is delivered until it is done; a delivery that    *)
(* fails leaves the job to the queue's retry.                               *)

MaxTries == 2        \* failed deliveries, over all jobs

ThumbnailSizes == {Str500, Str250, Str100}

\* the variant paths of a content path
Variants(localPath) == {localPath \o Underscore \o size : size \in ThumbnailSizes}

Pending == {j \in 1 .. Len(fileQueue) : j \notin worker.done}

\* job j is delivered and processed: a job without file is discarded, a job
\* without original bytes fails, otherwise the three variants are written
Worker_process(j) ==
    /\ j \in Pending
    /\ LET file == FileById(fileQueue[j].fileId) IN
       IF file = Null
          THEN /\ worker' = [worker EXCEPT !.done = @ \cup {j}]
               /\ disk' = disk
       ELSE IF file.localPath \notin disk
          THEN /\ worker.tries < MaxTries
               /\ worker' = [worker EXCEPT !.failed = @ \cup {j}, !.tries = @ + 1]
               /\ disk' = disk
       ELSE /\ worker' = [worker EXCEPT !.done = @ \cup {j}]
            /\ disk' = disk \cup Variants(file.localPath)
    /\ UNCHANGED <<users, files, cache, now, nextToken, userQueue, fileQueue,
                   req, conn, hist>>

\* job j is delivered and the generation of a thumbnail fails
Worker_fail(j) ==
    /\ j \in Pending
    /\ worker.tries < MaxTries
    /\ worker' = [worker EXCEPT !.failed = @ \cup {j}, !.tries = @ + 1]
    /\ UNCHANGED <<users, files, disk, cache, now, nextToken, userQueue,
                   fileQueue, req, conn, hist>>

-----------------------------------------------------------------------------
(* Time passes: Redis drops a key when its expiry is reached *)

Tick ==
    /\ now < MaxTicks * TickSeconds
    /\ now' = now + TickSeconds
    /\ UNCHANGED <<users, files, disk, cache, nextToken, userQueue, fileQueue, req, hist, worker, conn>>

-----------------------------------------------------------------------------
(* The clients' connections (RedisClient and DBClient constructors).  link  *)
(* is the state of the connection to the server; isConnected is the field   *)
(* of the client object, written only by the handlers the constructor       *)
(* registers.                                                               *)

Client(link, isConnected) == [link |-> link, isConnected |-> isConnected]

Constructed == Client("connecting", FALSE)   \* after the constructor has run
Up == Client("connected", TRUE)              \* after a first successful connect

RedisClient_isAlive == conn.redis.isConnected
DBClient_isAlive == conn.db.isConnected

\* 'connect' is emitted, at the first connection and after every reconnection
RedisClient_onConnect ==
    /\ conn.redis.link # "connected"
    /\ conn' = [conn EXCEPT !.redis = Client("connected", TRUE)]
    /\ UNCHANGED <<users, files, disk, cache, now, nextToken, userQueue,
                   fileQueue, req, worker, hist>>

\* 'error' is emitted (the server refuses the connection): the handler logs
RedisClient_onError ==
    /\ conn.redis.link \in {"connecting", "lost"}
    /\ conn' = [conn EXCEPT !.redis.link = "error"]
    /\ UNCHANGED <<users, files, disk, cache, now, nextToken, userQueue,
                   fileQueue, req, worker, hist>>

\* the connection ends ('end'): no handler is registered for it
RedisClient_lost ==
    /\ conn.redis.link = "connected"
    /\ conn' = [conn EXCEPT !.redis.link = "lost"]
    /\ UNCHANGED <<users, files, disk, cache, now, nextToken, userQueue,
                   fileQueue, req, worker, hist>>

\* the callback of client.connect runs, once, with or without an error
DBClient_connected(err) ==
    /\ conn.db.link = "connecting"
    /\ conn' = [conn EXCEPT !.db = IF err THEN Client("error", FALSE)
                                   ELSE Client("connected", TRUE)]
    /\ UNCHANGED <<users, files, disk, cache, now, nextToken, userQueue,
                   fileQueue, req, worker, hist>>

\* the connection to the database ends, or the driver restores it: no
\* callback of the client object runs
DBClient_lost ==
    /\ conn.db.link \in {"connected", "lost"}
    /\ conn' = [conn EXCEPT !.db.link =
                   IF @ = "connected" THEN "lost" ELSE "connected"]
    /\ UNCHANGED <<users, files, disk, cache, now, nextToken, userQueue,
                   fileQueue, req, worker, hist>>

(* AppController.getStatus *)

getStatus(r) ==
    /\ Free(r)
    /\ req' = Begin(r, "getStatus", Null, "done", Null,
                    Resp(200, [redis |-> RedisClient_isAlive,
                               db |-> DBClient_isAlive]))
    /\ UNCHANGED <<users, files, disk, cache, now, nextToken, userQueue,
                   fileQueue, worker, conn, hist>>

-----------------------------------------------------------------------------
IdleWorker == [done |-> {}, failed |-> {}, tries |-> 0]

\* nothing stored, nothing cached, no request
Empty ==
    /\ files = <<>>
    /\ disk = {}
    /\ cache = [t \in Tokens |-> NoEntry]
    /\ now = 0
    /\ nextToken = 1
    /\ userQueue = <<>>
    /\ fileQueue = <<>>
    /\ req = [r \in Procs |-> IdleReq]

\* the same, with both clients connected and the worker idle
Fresh ==
    /\ Empty
    /\ worker = IdleWorker
    /\ conn = [redis |-> Up, db |-> Up]

\* the service starts on an empty database
Init ==
    /\ Fresh
    /\ users = <<>>
    /\ hist = [issuedTo |-> [t \in Tokens |-> NoUserId],
               issuedAt |-> [t \in Tokens |-> 0],
               revoked |-> {},
               registered |-> <<>>]

XTokens == Tokens \cup {NoToken}

Registration ==
    \/ \E r \in Procs, e \in Emails, p \in Passwords : postNew(r, e, p)
    \/ \E r \in Procs : postNew_find(r)
    \/ \E r \in Procs : postNew_add(r)

LoginWith(headers) ==
    \/ \E r \in Procs, h \in headers : getConnect(r, h)
    \/ \E r \in Procs : getConnect_auth(r)

Identity ==
    \/ \E r \in Procs, t \in XTokens : getMe(r, t)
    \/ \E r \in Procs : getUserFromSession_get(r)
    \/ \E r \in Procs : getUserFromSession_find(r)

Logout ==
    \/ \E r \in Procs, t \in XTokens : getDisconnect(r, t)
    \/ \E r \in Procs : deleteSessionToken_get(r)
    \/ \E r \in Procs : deleteSessionToken_del(r)

\* registration, and login with well-formed credentials
Next ==
    Registration
    \/ LoginWith({BasicHeader(e, p) : e \in Emails \ {<<>>},
                                      p \in LoginPasswords \ {<<>>}})

Spec == Init /\ [][Next]_vars

\* the service starts on a database that holds two registered users
InitSession ==
    /\ Fresh
    /\ users = <<[_id |-> 1, email |-> StrA, password |-> sha1(StrP)],
                 [_id |-> 2, email |-> StrB, password |-> sha1(StrPQ)]>>
    /\ hist = [issuedTo |-> [t \in Tokens |-> NoUserId],
               issuedAt |-> [t \in Tokens |-> 0],
               revoked |-> {},
               registered |-> <<[email |-> StrA, password |-> StrP],
                                [email |-> StrB, password |-> StrPQ]>>]

\* login with every kind of header, identity, logout and the clock
NextSession == LoginWith(Headers) \/ Identity \/ Logout \/ Tick

SpecSession == InitSession /\ [][NextSession]_vars

\* the service starts on a database that holds two registered users, each
\* with a live session in the cache
InitFiles ==
    /\ worker = IdleWorker
    /\ conn = [redis |-> Up, db |-> Up]
    /\ files = <<>>
    /\ disk = {}
    /\ now = 0
    /\ nextToken = MaxTokens + 1
    /\ userQueue = <<>>
    /\ fileQueue = <<>>
    /\ req = [r \in Procs |-> IdleReq]
    /\ users = <<[_id |-> 1, email |-> StrA, password |-> sha1(StrP)],
                 [_id |-> 2, email |-> StrB, password |-> sha1(StrPQ)]>>
    /\ cache = [t \in Tokens |->
                  [value |-> IF t = 1 THEN 1 ELSE 2, expireAt |-> SessionTTL]]
    /\ hist = [issuedTo |-> [t \in Tokens |-> IF t = 1 THEN 1 ELSE 2],
               issuedAt |-> [t \in Tokens |-> 0],
               revoked |-> {},
               registered |-> <<[email |-> StrA, password |-> StrP],
                                [email |-> StrB, password |-> StrPQ]>>]

UnknownToken == MaxTokens + 1         \* a token that was never issued
FileIds == {Digit(1), Digit(2)}

\* upload bodies: a folder, a file and an image at the root, an image in
\* the entity with id 1, a body without name and one with an unknown type
Body(name, type, parentId) == [name |-> name, type |-> type, parentId |-> parentId]
UploadBodies ==
    {Body(StrA, FOLDER, Root), Body(StrA, "file", Root),
     Body(StrA, "image", Root), Body(StrA, "image", 1),
     Body(Undefined, "image", Root), Body(StrA, "other", Root)}

\* requests: every input with the token of user 1; one input with no token
\* and one with a token that was never issued
Requests(inputs, one) ==
    ({1} \X inputs) \cup ({NoToken, UnknownToken} \X {one})

UploadOf(clients, bodies) ==
    \/ \E r \in clients, q \in Requests(bodies, Body(StrA, "image", Root)) :
          postUpload(r, q[1], q[2].name, q[2].type, q[2].parentId, FALSE)
    \/ \E r \in clients : postUpload_save(r)
    \/ \E r \in clients : postUpload_saved(r)

Browse(clients) ==
    \/ \E r \in clients, q \in Requests(FileIds, Digit(1)) :
          getShow(r, q[1], q[2])
    \/ \E r \in clients : getShow_find(r)
    \/ \E r \in clients, q \in Requests({Undefined, Digit(1)}, Undefined) :
          getIndex(r, q[1], q[2], Undefined)
    \/ \E r \in clients : getIndex_list(r)
    \/ \E r \in clients : getIndex_find(r)

Publish(clients) ==
    \/ \E r \in clients, q \in Requests(FileIds, Digit(1)) :
          putPublish(r, q[1], q[2])
    \/ \E r \in clients, q \in Requests(FileIds, Digit(1)) :
          putUnpublish(r, q[1], q[2])
    \/ \E r \in clients : updatePublication_update(r)

GateSteps ==
    \/ \E r \in Procs : getUserFromSession_get(r)
    \/ \E r \in Procs : getUserFromSession_find(r)

Revoke ==
    \/ \E r \in Procs : getDisconnect(r, 1)
    \/ \E r \in Procs : deleteSessionToken_get(r)
    \/ \E r \in Procs : deleteSessionToken_del(r)

\* one client sends requests to the five gated file endpoints while the
\* session is logged out on either connection and the clock runs
NextFiles ==
    \/ UploadOf({1}, {Body(StrA, FOLDER, Root), Body(StrA, "image", Root)})
    \/ Browse({1}) \/ Publish({1}) \/ GateSteps \/ Revoke \/ Tick

SpecFiles == InitFiles /\ [][NextFiles]_vars

\* uploads of every kind of body, logout and the clock
NextUpload == UploadOf(Procs, UploadBodies) \/ GateSteps \/ Revoke \/ Tick

SpecUpload == InitFiles /\ [][NextUpload]_vars

\* the service holds a public folder and a private image of user 1 and a
\* public image of user 2, uploaded and published through the endpoints; the
\* two thumbnail jobs wait in the queue
InitServe ==
    /\ worker = IdleWorker
    /\ conn = [redis |-> Up, db |-> Up]
    /\ files = <<[id |-> 1, userId |-> 1, name |-> StrA, type |-> FOLDER,
                  parentId |-> Root, isPublic |-> TRUE, localPath |-> Undefined],
                 [id |-> 2, userId |-> 1, name |-> StrA, type |-> "image",
                  parentId |-> Root, isPublic |-> FALSE, localPath |-> <<2>>],
                 [id |-> 3, userId |-> 2, name |-> StrB, type |-> "image",
                  parentId |-> Root, isPublic |-> TRUE, localPath |-> <<3>>]>>
    /\ disk = {<<2>>, <<3>>}
    /\ now = 0
    /\ nextToken = MaxTokens + 1
    /\ userQueue = <<>>
    /\ fileQueue = <<[userId |-> 1, fileId |-> 2], [userId |-> 2, fileId |-> 3]>>
    /\ req = [r \in Procs |-> IdleReq]
    /\ users = <<[_id |-> 1, email |-> StrA, password |-> sha1(StrP)],
                 [_id |-> 2, email |-> StrB, password |-> sha1(StrPQ)]>>
    /\ cache = [t \in Tokens |->
                  [value |-> IF t = 1 THEN 1 ELSE 2, expireAt |-> SessionTTL]]
    /\ hist = [issuedTo |-> [t \in Tokens |-> IF t = 1 THEN 1 ELSE 2],
               issuedAt |-> [t \in Tokens |-> 0],
               revoked |-> {},
               registered |-> <<[email |-> StrA, password |-> StrP],
                                [email |-> StrB, password |-> StrPQ]>>]

\* the ids of the three entities and an id that no entity has
ServeIds == {Digit(1), Digit(2), Digit(3), Digit(9)}

\* size parameters: absent, the three sizes, another number, text, the
\* empty string, and other spellings of the three numbers
Sizes ==
    {Undefined, Str500, Str250, Str100, <<53, 48>>, <<97, 98, 99>>, <<>>,
     <<Blank>> \o Str500, Str500 \o <<Dot, 48>>, <<Plus>> \o Str250,
     <<48>> \o Str100}

\* viewers: the two users, no token, and a token that was never issued
Viewers == {1, 2, NoToken, UnknownToken}

Thumbnails ==
    \/ \E j \in 1 .. MaxFiles + 2 : Worker_process(j)
    \/ \E j \in 1 .. MaxFiles + 2 : Worker_fail(j)

\* one client asks for content, with no size, a size and a text for size,
\* while the worker goes through its jobs, the session of user 1 is logged
\* out and the clock runs
NextServe ==
    \/ \E t \in Viewers, id \in ServeIds, size \in {Undefined, Str250, <<97, 98, 99>>} :
          getFile(1, t, id, size)
    \/ getFile_find(1)
    \/ getFile_read(1)
    \/ GateSteps
    \/ Thumbnails
    \/ Revoke
    \/ Tick

SpecServe == InitServe /\ [][NextServe]_vars

\* one client asks for content with every size parameter while the worker
\* goes through its jobs
NextSize ==
    \/ \E t \in Viewers, id \in ServeIds, size \in Sizes : getFile(1, t, id, size)
    \/ getFile_find(1)
    \/ getFile_read(1)
    \/ GateSteps
    \/ Thumbnails

SpecSize == InitServe /\ [][NextSize]_vars

\* page parameters: absent, natural numbers, a negative number, text, a
\* fraction and the empty string; parentId parameters: absent, empty, '0'
\* and the id of the folder
Pages ==
    {Undefined, Digit(0), Digit(1), Digit(2), <<Minus>> \o Digit(1),
     <<97, 98, 99>>, Digit(1) \o <<Dot>> \o Digit(5), <<>>}
ParentIds == {Undefined, <<>>, Digit(0), Digit(1)}

\* the two users list their entities with every parentId and page
NextIndex ==
    \/ \E r \in Procs, t \in Tokens, parentId \in ParentIds, page \in Pages :
          getIndex(r, t, parentId, page)
    \/ \E r \in Procs : getIndex_list(r)
    \/ \E r \in Procs : getIndex_find(r)
    \/ GateSteps

SpecIndex == InitServe /\ [][NextIndex]_vars

\* the two users look at and publish every entity, their own and the
\* other's, and ids without entity
NextOwner ==
    \/ \E r \in Procs, t \in Tokens, id \in ServeIds : getShow(r, t, id)
    \/ \E r \in Procs : getShow_find(r)
    \/ \E r \in Procs, t \in Tokens, id \in ServeIds : putPublish(r, t, id)
    \/ \E r \in Procs, t \in Tokens, id \in ServeIds : putUnpublish(r, t, id)
    \/ \E r \in Procs : updatePublication_update(r)
    \/ GateSteps

SpecOwner == InitServe /\ [][NextOwner]_vars

\* images and folders are uploaded on two connections while the worker
\* goes through the jobs, with failures and retries
NextWorker ==
    \/ UploadOf(Procs, {Body(StrA, FOLDER, Root), Body(StrA, "image", Root)})
    \/ GateSteps
    \/ Thumbnails

SpecWorker == InitFiles /\ [][NextWorker]_vars

\* the process starts: the two clients are constructed and connect, lose
\* and regain their connections while the status is asked for
InitConn ==
    /\ Empty
    /\ users = <<>>
    /\ hist = [issuedTo |-> [t \in Tokens |-> NoUserId],
               issuedAt |-> [t \in Tokens |-> 0],
               revoked |-> {},
               registered |-> <<>>]
    /\ worker = IdleWorker
    /\ conn = [redis |-> Constructed, db |-> Constructed]

NextConn ==
    \/ RedisClient_onConnect
    \/ RedisClient_onError
    \/ RedisClient_lost
    \/ \E err \in BOOLEAN : DBClient_connected(err)
    \/ DBClient_lost
    \/ \E r \in Procs : getStatus(r)

SpecConn == InitConn /\ [][NextConn]_vars

-----------------------------------------------------------------------------
(* Properties *)

\* the registrations of email e, as positions of hist.registered (and of users)
RegIdx(e) == {i \in 1 .. Len(hist.registered) : hist.registered[i].email = e}

Issued(t) == hist.issuedTo[t] # NoUserId
Revoked(t) == t \in hist.revoked
Expired(t) == now >= hist.issuedAt[t] + SessionTTL

\* r takes a step as handler op
Steps(r, op) == req'[r] # req[r] /\ req'[r].op = op

\* C1: a token returned by generateSessionToken(u) resolves to u, and to no
\* other user, while it is neither revoked nor expired; once revoked or
\* expired it resolves to nothing.
C1_TokenResolvesWhileAlive ==
    \A t \in Tokens : Issued(t) =>
        getUserFromSession(t) =
            IF ~Revoked(t) /\ ~Expired(t)
               THEN [email |-> users[hist.issuedTo[t]].email,
                     id |-> hist.issuedTo[t]]
               ELSE Null

\* C2: issue, resolve, revoke, resolve, revoke on one token: a resolve begun
\* right after the issue yields the user, the first revoke returns true,
\* every resolve after it yields nothing, and a second revoke returns false
\* and changes nothing.
C2_IssueResolveRevoke ==
    [][\A r \in Procs :
        /\ ( /\ req[r].pc = "session" /\ Steps(r, "getMe")
             /\ Issued(req[r].in.token) /\ ~Revoked(req[r].in.token)
             /\ now = hist.issuedAt[req[r].in.token] )
           => ( /\ req'[r].pc = "user"
                /\ req'[r].loc = [userId |-> hist.issuedTo[req[r].in.token]] )
        /\ ( /\ req[r].pc = "get" /\ Steps(r, "getDisconnect")
             /\ Issued(req[r].in.token) /\ ~Revoked(req[r].in.token)
             /\ now = hist.issuedAt[req[r].in.token] )
           => req'[r].pc = "del"
        /\ ( /\ req[r].pc = "session" /\ Steps(r, "getMe")
             /\ Revoked(req[r].in.token) )
           => ( req'[r].pc = "done" /\ req'[r].resp = Unauthorized )
        /\ ( /\ req[r].pc = "get" /\ Steps(r, "getDisconnect")
             /\ Revoked(req[r].in.token) )
           => ( /\ req'[r].pc = "done" /\ req'[r].resp = Unauthorized
                /\ UNCHANGED <<users, files, disk, cache, hist>> )
    ]_vars

\* C3: the users collection never holds two documents with the same email.
C3_EmailsUnique ==
    \A i, j \in 1 .. Len(users) : users[i].email = users[j].email => i = j

\* C4: a postNew that supplies an email and a password, for an email that a
\* completed postNew has registered, is answered 400 'Already exist', inserts
\* no user, adds no job and leaves the users collection as it was.
C4_DuplicateEmailRejected ==
    [][\A r \in Procs :
        ( /\ req[r].pc = "find" /\ Steps(r, "postNew")
          /\ RegIdx(req[r].in.email) # {} )
        => ( /\ req'[r].pc = "done"
             /\ req'[r].resp = Error(400, "Already exist")
             /\ users' = users
             /\ userQueue' = userQueue )
    ]_vars

\* a second registration of an email with another password was rejected
C4_Witness ==
    \E r \in Procs :
        /\ req[r].op = "postNew" /\ req[r].pc = "done"
        /\ req[r].resp = Error(400, "Already exist")
        /\ \E i \in RegIdx(req[r].in.email) :
               hist.registered[i].password # req[r].in.password

\* C5: for an (email, password) pair registered once, authenticateUser(email, p)
\* returns that user exactly when p is the registered password, and null for
\* every other password and for an email never registered.
C5_AuthenticateExactly ==
    \A e \in Emails, p \in LoginPasswords :
        /\ RegIdx(e) = {} => authenticateUser(e, p) = Null
        /\ Cardinality(RegIdx(e)) = 1 =>
              LET i == CHOOSE i \in RegIdx(e) : TRUE IN
              authenticateUser(e, p) =
                  IF p = hist.registered[i].password THEN users[i] ELSE Null

\* a user registered once has logged in, and another email is unknown
C5_Witness ==
    \E r \in Procs, e \in Emails :
        /\ Cardinality(RegIdx(e)) = 1
        /\ req[r].op = "getConnect" /\ req[r].resp.status = 200
        /\ getBasicAuthToken(req[r].in.authorization).email = e
        /\ \E e2 \in Emails \ {<<>>} : RegIdx(e2) = {}

\* C6: a getConnect whose header is base64(email:password) of a pair that
\* postNew accepted (once) obtains a token of the registered user, whatever
\* characters the email and the password hold.
C6_RegisterThenLogin ==
    [][\A r \in Procs :
        ( /\ Steps(r, "getConnect")
          /\ req'[r].pc \in {"done", "threw"}
          /\ \E i \in 1 .. Len(hist.registered) :
                /\ Cardinality(RegIdx(hist.registered[i].email)) = 1
                /\ req'[r].in.authorization =
                      BasicHeader(hist.registered[i].email,
                                  hist.registered[i].password) )
        => ( /\ req'[r].resp.status = 200
             /\ \E i \in RegIdx(req[r].loc.email) :
                   hist'.issuedTo[req'[r].resp.body.token] = users[i]._id )
    ]_vars

\* the credentials of header h are missing or invalid
BadCredentials(h) ==
    LET cred == getBasicAuthToken(h) IN
    \/ cred = Null
    \/ Falsy(cred.email) \/ Falsy(cred.password)
    \/ \A i \in 1 .. Len(users) :
          users[i].email = cred.email => users[i].password # sha1(cred.password)

\* C7: getConnect answers 401 Unauthorized and issues no token when the
\* credentials are missing or invalid, and getDisconnect and getMe answer the
\* same 401 for a missing, expired or unknown token; no such request ends in
\* another way.
C7_UnauthorizedAlways ==
    [][\A r \in Procs :
        /\ ( /\ Steps(r, "getConnect")
             /\ req'[r].pc \in {"done", "threw"}
             /\ BadCredentials(req'[r].in.authorization) )
           => ( /\ req'[r].pc = "done" /\ req'[r].resp = Unauthorized
                /\ UNCHANGED <<cache, nextToken>> )
        /\ ( /\ Steps(r, "getDisconnect") \/ Steps(r, "getMe")
             /\ \/ Free(r) /\ req'[r].in.token = NoToken
                \/ /\ req[r].pc \in {"session", "get"}
                   /\ ~Issued(req[r].in.token) \/ Expired(req[r].in.token) )
           => ( req'[r].pc = "done" /\ req'[r].resp = Unauthorized )
    ]_vars

\* the login with (email, password) fails for the cause given
UnknownEmail(e) == findUserByEmail(e) = Null
WrongPassword(e, p) ==
    findUserByEmail(e) # Null /\ findUserByEmail(e).password # sha1(p)

\* C8: an unknown email and a wrong password for a registered email are not
\* told apart: authenticateUser returns the same value, and getConnect gives
\* the same response and changes neither cache nor store.
C8_NoEnumeration ==
    /\ [](\A e1, e2 \in Emails, p \in LoginPasswords :
            (UnknownEmail(e1) /\ WrongPassword(e2, p))
            => authenticateUser(e1, p) = authenticateUser(e2, p))
    /\ [][\A r \in Procs :
            ( /\ req[r].pc = "auth" /\ Steps(r, "getConnect")
              /\ \/ UnknownEmail(req[r].loc.email)
                 \/ WrongPassword(req[r].loc.email, req[r].loc.password) )
            => ( /\ req'[r].pc = "done" /\ req'[r].resp = Unauthorized
                 /\ UNCHANGED <<users, files, disk, cache, nextToken,
                                userQueue, fileQueue>> )
       ]_vars

\* one login failed on an unknown email and one on a wrong password
C8_Witness ==
    \E r1, r2 \in Procs :
        LET c1 == getBasicAuthToken(req[r1].in.authorization)
            c2 == getBasicAuthToken(req[r2].in.authorization) IN
        /\ req[r1].op = "getConnect" /\ req[r1].resp = Unauthorized
        /\ c1 # Null /\ ~Falsy(c1.email) /\ ~Falsy(c1.password)
        /\ UnknownEmail(c1.email)
        /\ req[r2].op = "getConnect" /\ req[r2].resp = Unauthorized
        /\ c2 # Null /\ ~Falsy(c2.email) /\ ~Falsy(c2.password)
        /\ WrongPassword(c2.email, c2.password)

\* the token is unknown, revoked or expired
Dead(t) == t \notin Tokens \/ ~Issued(t) \/ Revoked(t) \/ Expired(t)

UserExists(id) == \E i \in 1 .. Len(users) : users[i]._id = id

\* C9: in postUpload, getShow, getIndex, putPublish and putUnpublish a request
\* whose token is absent, unknown, revoked or expired, or maps to no user, is
\* answered 401 without a File Store call or a queue add; File Store calls,
\* and every change of a file record, are made by a request whose token
\* resolved to an existing user when it was checked.
C9_AuthGate ==
    [][/\ \A r \in Procs : (req'[r] # req[r] /\ req'[r].op \in FileOps) =>
            /\ ( \/ Free(r) /\ req'[r].in.token = NoToken
                 \/ req[r].pc = "session" /\ Dead(req[r].in.token)
                 \/ req[r].pc = "user" /\ ~UserExists(req[r].loc.userId) )
               => ( req'[r].pc = "done" /\ req'[r].resp = Unauthorized )
            /\ req'[r].resp = Unauthorized
               => ( /\ Free(r) \/ req[r].pc \in {"session", "user"}
                    /\ UNCHANGED <<files, disk, fileQueue, userQueue>> )
            /\ req'[r].pc \in {"store", "insert"}
               => ( req'[r].loc # Null /\ UserExists(req'[r].loc.id) )
       /\ <<files, disk, fileQueue>>' # <<files, disk, fileQueue>>
          => \E r \in Procs :
                /\ req'[r] # req[r] /\ req[r].op \in FileOps
                /\ req[r].pc \in {"store", "insert"}
                /\ UserExists(req[r].loc.id)
    ]_vars

\* a file exists, and a file request with the revoked token was answered 401
C9_Witness ==
    /\ files # <<>>
    /\ \E r \in Procs :
          /\ req[r].op \in FileOps /\ req[r].resp = Unauthorized
          /\ req[r].in.token \in Tokens /\ Revoked(req[r].in.token)

\* the jobs of the image documents of docs, in insertion order
RECURSIVE ImageJobs(_)
ImageJobs(docs) ==
    IF docs = <<>> THEN <<>>
    ELSE (IF Head(docs).type = "image"
             THEN <<[userId |-> Head(docs).userId, fileId |-> Head(docs).id]>>
             ELSE <<>>)
         \o ImageJobs(Tail(docs))

\* C10: every postUpload that saves an image adds exactly one job
\* {userId, fileId}, when the save is done, so that every job names a
\* persisted file and its uploader; an upload of a folder or a file, a
\* rejected upload (401) and a failed save (400) add no job.
C10_JobPerImage ==
    /\ [](fileQueue = ImageJobs(files))
    /\ [][\A r \in Procs : (req'[r] # req[r] /\ req'[r].op = "postUpload") =>
            /\ req'[r].resp.status \in {400, 401} => fileQueue' = fileQueue
            /\ req'[r].resp.status = 201 =>
                  /\ \E i \in 1 .. Len(files') :
                        files'[i].id = req'[r].resp.body.id
                  /\ fileQueue' =
                        IF req[r].in.type = "image"
                           THEN Append(fileQueue,
                                       [userId |-> req[r].loc.id,
                                        fileId |-> req'[r].resp.body.id])
                           ELSE fileQueue
       ]_vars

\* an image and another entity are saved, one job is queued, and an upload
\* was answered 400
C10_Witness ==
    /\ Len(files) = 2 /\ Len(fileQueue) = 1
    /\ \E r \in Procs : req[r].op = "postUpload" /\ req[r].resp.status = 400

\* the entity a getFile request names, whoever may see it, and its viewer
Asked(r) == FileById(ObjectId(req[r].in.id))
Viewer(r) == IF req[r].loc = Null THEN NoUserId ELSE req[r].loc.id
MaySee(f, viewer) == f.isPublic \/ f.userId = viewer
NotFound == Error(404, "Not found")

\* the path that holds the bytes asked for: the variant for a size that is
\* one of 500, 250, 100, the original otherwise
ContentPath(f, size) ==
    IF size \in ThumbnailSizes THEN f.localPath \o Underscore \o size
    ELSE f.localPath

\* C11: a getFile without token, or with a token that does not resolve, has
\* no viewer and is given the file exactly when the file is public; the owner
\* with a live token is given the file whatever its visibility; a private
\* file asked for by no viewer or by another user is answered 404 'Not
\* found', as an id without file is.
C11_ServingVisibility ==
    [][\A r \in Procs : Steps(r, "getFile") =>
        /\ ( \/ Free(r) /\ req'[r].in.token = NoToken
             \/ req[r].pc = "session" /\ Dead(req[r].in.token) )
           => ( req'[r].pc = "store" /\ req'[r].loc = Null )
        /\ ( req[r].pc = "session" /\ ~Dead(req[r].in.token) )
           => ( /\ req'[r].pc = "user"
                /\ req'[r].loc.userId = hist.issuedTo[req[r].in.token] )
        /\ req[r].pc = "user"
           => ( req'[r].pc = "store" /\ req'[r].loc.id = req[r].loc.userId )
        /\ req[r].pc = "store" =>
              LET f == Asked(r) IN
              IF f = Null \/ ~MaySee(f, Viewer(r))
                 THEN req'[r].pc = "done" /\ req'[r].resp = NotFound
              ELSE IF f.type = FOLDER THEN req'[r].resp.status = 400
              ELSE IF ContentPath(f, req[r].in.size) \in disk
                 THEN req'[r].pc = "read"
              ELSE req'[r].resp = NotFound
    ]_vars

\* user 2 was refused the private image of user 1, whose bytes are stored
C11_Witness ==
    \E r \in Procs :
        /\ req[r].op = "getFile" /\ req[r].resp = NotFound
        /\ req[r].in.token = 2 /\ ~Dead(2)
        /\ Asked(r) # Null /\ ~Asked(r).isPublic /\ Asked(r).userId = 1
        /\ ContentPath(Asked(r), req[r].in.size) \in disk

\* C12: for every size parameter the path getFile reads is the original or
\* one of its three variants: the variant of s when the size is s in
\* {500, 250, 100}, the original when the size is no spelling of these
\* numbers; no other path is looked for.
C12_SizeSelectsPath ==
    [][\A r \in Procs : (Steps(r, "getFile") /\ req[r].pc = "store") =>
        LET f == Asked(r)
            size == req[r].in.size
            path == getFile_filePath(f.localPath, size) IN
        (f # Null /\ MaySee(f, Viewer(r)) /\ f.type # FOLDER) =>
            /\ path \in {f.localPath} \cup Variants(f.localPath)
            /\ size \in ThumbnailSizes => path = f.localPath \o Underscore \o size
            /\ ~Includes(<<500, 250, 100>>, ToNumber(size)) => path = f.localPath
            /\ (path \in disk) = (req'[r].pc = "read")
            /\ req'[r].pc = "read" => req'[r].loc.filePath = path
    ]_vars

\* C13: getFile answers 400 for a folder the viewer may see, whatever the
\* size; 404 'Not found' for another entity whose bytes asked for are not on
\* storage, as for a thumbnail not yet made; it answers 200 only with the
\* bytes of a path that is on storage, and knows no other answer.
C13_NoFolderNoPending ==
    [][\A r \in Procs : Steps(r, "getFile") =>
        /\ req'[r].resp.status \in {0, 200, 400, 404}
        /\ req[r].pc = "store" =>
              LET f == Asked(r) IN
              (f # Null /\ MaySee(f, Viewer(r))) =>
                 /\ f.type = FOLDER =>
                       req'[r].resp = Error(400, "A folder doesn't have content")
                 /\ (f.type # FOLDER /\ ContentPath(f, req[r].in.size) \notin disk)
                       => req'[r].resp = NotFound
        /\ req'[r].resp.status = 200 =>
              /\ req[r].pc = "read"
              /\ req'[r].resp.body.data = req[r].loc.filePath
              /\ req'[r].resp.body.data \in disk
              /\ Asked(r).type # FOLDER
    ]_vars

\* the owner asked for a thumbnail whose job is not done, and got 404
C13_Witness ==
    \E r \in Procs :
        /\ req[r].op = "getFile" /\ req[r].resp = NotFound
        /\ req[r].in.token = 1 /\ req[r].in.id = Digit(2)
        /\ req[r].in.size = Str250
        /\ 1 \in Pending /\ <<2>> \in disk

\* a page parameter that is a natural number, a negative number, or no number
IsNatural(p) ==
    p # Undefined /\ p # <<>> /\ \A i \in 1 .. Len(p) : IsDigit(p[i])
IsNegative(p) ==
    p # Undefined /\ Len(p) > 1 /\ p[1] = Minus /\ IsNatural(Tail(p))
NonNumeric(p) ==
    p # Undefined /\ \E i \in 1 .. Len(p) : p[i] \in 97 .. 122

\* C14: getIndex hands the File Store listing the page given when it is a
\* natural number, and page 0 when the parameter is absent, not numeric or
\* negative; it hands over parentId 0, the root, when the parameter is absent,
\* empty or '0'.
C14_ListingParameters ==
    [][\A r \in Procs : (Steps(r, "getIndex") /\ req[r].pc = "store") =>
        LET page == req[r].in.page
            parentId == req[r].in.parentId IN
        /\ IsNatural(page)
           => req'[r].loc.page = Num(FALSE, DigitsValue(page), <<>>)
        /\ (page = Undefined \/ NonNumeric(page) \/ IsNegative(page))
           => req'[r].loc.page = Num(FALSE, 0, <<>>)
        /\ (parentId = Undefined \/ parentId = <<>> \/ parentId = Digit(0))
           => req'[r].loc.parentId = Root
    ]_vars

\* C15: a getConnect answered 200 carries a token whose key the cache holds,
\* with the user's id and the 24 hour expiry: a failed cache write is never
\* answered with a token.
C15_NoTokenWithoutKey ==
    [][\A r \in Procs :
        (Steps(r, "getConnect") /\ req'[r].resp.status = 200)
        => cache'[req'[r].resp.body.token] =
              [value |-> hist'.issuedTo[req'[r].resp.body.token],
               expireAt |-> now + SessionTTL]
    ]_vars

\* C16: getShow, putPublish and putUnpublish by a user who does not own the
\* entity are answered 404 'Not found', as for an id without entity, and
\* change no file record; isPublic changes only by the owner's putPublish or
\* putUnpublish, to the value asked for; no step changes the owner or the id
\* of a file record or removes one.
C16_OwnershipGate ==
    [][/\ \A r \in Procs :
            ( /\ req'[r] # req[r] /\ req[r].pc = "store"
              /\ req[r].op \in {"getShow", "putPublish", "putUnpublish"}
              /\ Asked(r) = Null \/ Asked(r).userId # req[r].loc.id )
            => ( req'[r].resp = NotFound /\ files' = files )
       /\ Len(files') >= Len(files)
       /\ \A i \in 1 .. Len(files) :
            /\ files'[i].userId = files[i].userId
            /\ files'[i].id = files[i].id
            /\ files'[i].isPublic # files[i].isPublic
               => \E r \in Procs :
                     /\ req'[r] # req[r] /\ req[r].pc = "store"
                     /\ req[r].op \in {"putPublish", "putUnpublish"}
                     /\ req[r].loc.id = files[i].userId
                     /\ ObjectId(req[r].in.id) = files[i].id
                     /\ files'[i].isPublic = (req[r].op = "putPublish")
    ]_vars

\* user 2 asked to publish the private image of user 1 and got 404; the
\* image is private
C16_Witness ==
    \E r \in Procs :
        /\ req[r].op = "putPublish" /\ req[r].resp = NotFound
        /\ req[r].in.token = 2 /\ req[r].in.id = Digit(2)
        /\ files[2].userId = 1 /\ ~files[2].isPublic

\* the token a session step of request r works on
Touched(r) ==
    IF req'[r].op = "getConnect" THEN nextToken ELSE req'[r].in.token

\* C17: a step of generateSessionToken, getUserFromSession or
\* deleteSessionToken (in getConnect, getMe, getDisconnect) writes neither the
\* users nor the files collection and leaves the cache entry of every token
\* but its own as it was; a token whose entry is live stays live when another
\* token of the same user is revoked.
C17_OwnKeyOnly ==
    [][\A r \in Procs :
        (req'[r] # req[r] /\ req'[r].op \in {"getConnect", "getMe", "getDisconnect"})
        => ( /\ users' = users /\ files' = files /\ disk' = disk
             /\ \A t \in Tokens \ {Touched(r)} :
                   /\ cache'[t] = cache[t]
                   /\ (cache'[t].expireAt > now') = (cache[t].expireAt > now) )
    ]_vars

\* one user holds two tokens; one was revoked and the other still resolves
C17_Witness ==
    \E t1, t2 \in Tokens :
        /\ t1 # t2 /\ Issued(t1) /\ hist.issuedTo[t1] = hist.issuedTo[t2]
        /\ Revoked(t1) /\ redisGet(t1) = NoUserId
        /\ ~Revoked(t2) /\ getUserFromSession(t2) # Null

\* C18: a deleteSessionToken returns true (204) only if its own delete removed
\* the key, so of the concurrent calls on one live token exactly one returns
\* true, and a call whose key expired before its delete returns false.
C18_OneRevokeWins ==
    [][\A r \in Procs :
        ( /\ req[r].pc = "del" /\ Steps(r, "getDisconnect")
          /\ req'[r].resp.status = 204 )
        => ( /\ redisGet(req[r].in.token) # NoUserId
             /\ redisGet(req[r].in.token)' = NoUserId )
    ]_vars

\* C19: postUpload answers 201 for an image in the step that saves it and
\* adds its job, before any worker step on the job: the job is pending and no
\* thumbnail is written; a worker step, whether it completes a job or fails
\* one, changes no response, no request and no file record.
C19_UploadDecoupled ==
    [][/\ \A r \in Procs :
            ( /\ Steps(r, "postUpload") /\ req'[r].resp.status = 201
              /\ req[r].in.type = "image" )
            => ( /\ worker' = worker
                 /\ Len(fileQueue') = Len(fileQueue) + 1
                 /\ fileQueue'[Len(fileQueue')].fileId = req'[r].resp.body.id
                 /\ Len(fileQueue') \in Pending'
                 /\ files'[Len(files')].id = req'[r].resp.body.id
                 /\ Variants(files'[Len(files')].localPath) \cap disk' = {} )
       /\ worker' # worker
          => ( /\ req' = req /\ files' = files /\ fileQueue' = fileQueue
               /\ users' = users /\ cache' = cache )
    ]_vars

\* an image upload was answered 201; its job failed, was retried and is done
C19_Witness ==
    \E r \in Procs, j \in worker.done \cap worker.failed :
        /\ req[r].op = "postUpload" /\ req[r].resp.status = 201
        /\ req[r].resp.body.type = "image"
        /\ fileQueue[j].fileId = req[r].resp.body.id
        /\ Variants(FileById(req[r].resp.body.id).localPath) \subseteq disk

\* C20: in every state of the connection life cycle RedisClient.isAlive() and
\* DBClient.isAlive() are true exactly when the client is connected to its
\* server, and getStatus reports the two values.
C20_IsAliveIsConnected ==
    /\ [](/\ RedisClient_isAlive = (conn.redis.link = "connected")
          /\ DBClient_isAlive = (conn.db.link = "connected"))
    /\ [][\A r \in Procs : Steps(r, "getStatus") =>
            req'[r].resp = Resp(200, [redis |-> conn.redis.link = "connected",
                                      db |-> conn.db.link = "connected"])
       ]_vars

====
